---- MODULE Spec2Model ----
(***************************************************************************)
(* Model of the import phase of migrate.py (Google Takeout -> Apple        *)
(* Photos): ImportStats bookkeeping, the per-item importer and its         *)
(* classification of the external tool's outcome, the health check cycle   *)
(* and the album/item loops of import_to_apple_photos.                     *)
(*                                                                         *)
(* Text (subprocess output, error messages) is a sequence of one-character *)
(* strings, so that concatenation, lower-casing, substring search and      *)
(* slicing are computed as the code computes them.                         *)
(***************************************************************************)
EXTENDS Integers, Sequences, FiniteSets, TLC

\* ------------------------------------------------------------------ bounds
\* Number of album directories under OUTPUT_DIR.
NumAlbums == 3
\* Largest number of media files in one album directory.
MaxItems == 3
\* Largest configured monitoring.health_check_interval.
MaxInterval == 2

\* ------------------------------------------------------- program constants
\* output[:200]
ErrorDetailLen == 200
\* default / configured ceilings of check_photos_health
max_memory_gb == 3
max_errors == 5

\* ------------------------------------------------------------------- text
UpperChars == << "A","B","C","D","E","F","G","H","I","J","K","L","M",
                 "N","O","P","Q","R","S","T","U","V","W","X","Y","Z" >>
LowerChars == << "a","b","c","d","e","f","g","h","i","j","k","l","m",
                 "n","o","p","q","r","s","t","u","v","w","x","y","z" >>

\* str.lower() on one character
LowerChar(c) ==
    IF \E k \in 1..Len(UpperChars) : UpperChars[k] = c
    THEN LowerChars[CHOOSE k \in 1..Len(UpperChars) : UpperChars[k] = c]
    ELSE c

\* str.lower()
lower(s) == [k \in 1..Len(s) |-> LowerChar(s[k])]

\* needle in haystack
Contains(needle, haystack) ==
    \E k \in 0..(Len(haystack) - Len(needle)) :
        \A j \in 1..Len(needle) : haystack[k + j] = needle[j]

\* s[:n]
Prefix(s, n) == SubSeq(s, 1, IF Len(s) < n THEN Len(s) ELSE n)

\* n copies of character c
Repeat(c, n) == [k \in 1..n |-> c]

IndDuplicate == << "d","u","p","l","i","c","a","t","e" >>
IndSkipping  == << "s","k","i","p","p","i","n","g" >>
TimeoutMsg   == << "T","i","m","e","o","u","t"," ","n","a","c","h"," ",
                   "1","2","0"," ","S","e","k","u","n","d","e","n" >>

\* Optional[str]
None == [some |-> FALSE, text |-> << >>]
Some(t) == [some |-> TRUE, text |-> t]

\* ------------------------------------------------------------ ImportStats
Statuses == {"imported", "duplicate", "error", "skipped"}

ImportResult(filepath, album, status, error_message) ==
    [filepath |-> filepath, album |-> album, status |-> status,
     error_message |-> error_message]

NewImportStats ==
    [total |-> 0, imported |-> 0, duplicates |-> 0, errors |-> 0,
     skipped |-> 0, deleted |-> 0, results |-> << >>]

\* add_result with the error branch counting without logging.
add_result_DropsErrors(stats, result) ==
    LET s1 == [stats EXCEPT !.total = @ + 1]
        s2 == [s1 EXCEPT !.results = Append(@, result)]
    IN  IF result.status = "imported" THEN [s2 EXCEPT !.imported = @ + 1]
        ELSE IF result.status = "duplicate" THEN [s2 EXCEPT !.duplicates = @ + 1]
        ELSE IF result.status = "error" THEN [s1 EXCEPT !.errors = @ + 1]
        ELSE IF result.status = "skipped" THEN [s2 EXCEPT !.skipped = @ + 1]
        ELSE s2

\* add_result with duplicates counted as imported.
add_result_DupAsImported(stats, result) ==
    LET s1 == [stats EXCEPT !.results = Append(@, result), !.total = @ + 1]
    IN  IF result.status = "imported" THEN [s1 EXCEPT !.imported = @ + 1]
        ELSE IF result.status = "duplicate" THEN [s1 EXCEPT !.imported = @ + 1]
        ELSE IF result.status = "error" THEN [s1 EXCEPT !.errors = @ + 1]
        ELSE IF result.status = "skipped" THEN [s1 EXCEPT !.skipped = @ + 1]
        ELSE s1

add_result(stats, result) ==
    LET s1 == [stats EXCEPT !.results = Append(@, result), !.total = @ + 1]
    IN  IF result.status = "imported" THEN [s1 EXCEPT !.imported = @ + 1]
        ELSE IF result.status = "duplicate" THEN [s1 EXCEPT !.duplicates = @ + 1]
        ELSE IF result.status = "error" THEN [s1 EXCEPT !.errors = @ + 1]
        ELSE IF result.status = "skipped" THEN [s1 EXCEPT !.skipped = @ + 1]
        ELSE s1

\* ------------------------------------------------------ Per-Item Importer
\* Outcome of subprocess.run(cmd, capture_output, text, timeout=120):
\* a CompletedProcess, TimeoutExpired, or any other exception.
Completed(rc, out, err) ==
    [kind |-> "completed", returncode |-> rc, stdout |-> out, stderr |-> err]
TimeoutExpired ==
    [kind |-> "timeout", returncode |-> 0, stdout |-> << >>, stderr |-> << >>]
\* an exception e with str(e) = msg
Raised(msg) ==
    [kind |-> "exception", returncode |-> 0, stdout |-> << >>, stderr |-> msg]
\* no subprocess was run
NoProc ==
    [kind |-> "none", returncode |-> 0, stdout |-> << >>, stderr |-> << >>]

\* A call either returns a value or lets an exception propagate.
Return(v) == [raised |-> FALSE, value |-> v]

\* The classification with the indicator search done on the raw output.
ClassifyCompleted_CaseSensitive(filepath, album_name, p) ==
    LET output == p.stdout \o p.stderr
    IN  IF Contains(IndDuplicate, output) \/ Contains(IndSkipping, output)
        THEN ImportResult(filepath, album_name, "duplicate", None)
        ELSE IF p.returncode = 0
        THEN ImportResult(filepath, album_name, "imported", None)
        ELSE ImportResult(filepath, album_name, "error",
                          Some(Prefix(output, ErrorDetailLen)))

\* The classification with the whole output kept as error detail.
ClassifyCompleted_NoTruncation(filepath, album_name, p) ==
    LET output == p.stdout \o p.stderr
    IN  IF Contains(IndDuplicate, lower(output)) \/ Contains(IndSkipping, lower(output))
        THEN ImportResult(filepath, album_name, "duplicate", None)
        ELSE IF p.returncode = 0
        THEN ImportResult(filepath, album_name, "imported", None)
        ELSE ImportResult(filepath, album_name, "error", Some(output))

\* The classification of a completed invocation (lines 610-633).
ClassifyCompleted(filepath, album_name, p) ==
    LET output == p.stdout \o p.stderr
    IN  IF Contains(IndDuplicate, lower(output)) \/ Contains(IndSkipping, lower(output))
        THEN ImportResult(filepath, album_name, "duplicate", None)
        ELSE IF p.returncode = 0
        THEN ImportResult(filepath, album_name, "imported", None)
        ELSE ImportResult(filepath, album_name, "error",
                          Some(Prefix(output, ErrorDetailLen)))

\* import_single_file without the except clause for TimeoutExpired.
import_single_file_TimeoutPropagates(dry_run, filepath, album_name, p) ==
    IF dry_run
    THEN Return(ImportResult(filepath, album_name, "skipped", None))
    ELSE IF p.kind = "completed"
    THEN Return(ClassifyCompleted(filepath, album_name, p))
    ELSE IF p.kind = "timeout"
    THEN [raised |-> TRUE, value |-> ImportResult(filepath, album_name, "error", None)]
    ELSE Return(ImportResult(filepath, album_name, "error", Some(p.stderr)))

\* import_single_file: p is what subprocess.run does when it is called.
import_single_file(dry_run, filepath, album_name, p) ==
    IF dry_run
    THEN Return(ImportResult(filepath, album_name, "skipped", None))
    ELSE IF p.kind = "completed"
    THEN Return(ClassifyCompleted(filepath, album_name, p))
    ELSE IF p.kind = "timeout"
    THEN Return(ImportResult(filepath, album_name, "error", Some(TimeoutMsg)))
    ELSE Return(ImportResult(filepath, album_name, "error", Some(p.stderr)))

\* Whether import_single_file runs the external tool at all.
InvokesTool(dry_run) == ~dry_run

\* The deletion test without the status condition.
DeletesAfter_AnyStatus(status, delete_after_import, dry_run) ==
    delete_after_import /\ ~dry_run

\* Whether the orchestrator unlinks the source file after this outcome
\* (lines 567 and 576).
DeletesAfter(status, delete_after_import, dry_run) ==
    \/ (status = "imported" /\ delete_after_import /\ ~dry_run)
    \/ (status = "duplicate" /\ delete_after_import /\ ~dry_run)

\* --------------------------------------------------------- Health Monitor
Raise == [raised |-> TRUE, value |-> None]

\* What the system shows to one health check: whether a process named
\* Photos exists, its resident memory (GB), the number of photolibraryd
\* error lines of the last 5 minutes, and whether `log show` finishes within
\* its 30 second timeout (subprocess.run raises TimeoutExpired otherwise).
Probes ==
    [running : BOOLEAN, memory_gb : {max_memory_gb, max_memory_gb + 1},
     error_count : {max_errors, max_errors + 1}, log_completes : BOOLEAN]

\* get_photos_errors: returns the count, or lets TimeoutExpired propagate.
get_photos_errors(probe) ==
    IF probe.log_completes THEN Return(probe.error_count) ELSE Raise

\* check_photos_health: (healthy, reason), or the exception of
\* get_photos_errors, which it does not catch.
check_photos_health(max_memory, max_errs, probe) ==
    IF ~probe.running
    THEN Return([healthy |-> FALSE, reason |-> "not running"])
    ELSE IF probe.memory_gb > max_memory
    THEN Return([healthy |-> FALSE, reason |-> "memory"])
    ELSE LET e == get_photos_errors(probe)
         IN  IF e.raised THEN Raise
             ELSE IF e.value > max_errs
             THEN Return([healthy |-> FALSE, reason |-> "errors"])
             ELSE Return([healthy |-> TRUE, reason |-> "ok"])

Actions == {"restart", "terminate", "manual", "ignore"}
Responses == {"j", "r", "n", ""}

\* handle_health_failure with terminate only logging.
handle_health_failure_NoAbort(action, response) ==
    IF action = "restart" THEN [continue |-> TRUE, restart |-> TRUE]
    ELSE IF action = "terminate" THEN [continue |-> TRUE, restart |-> FALSE]
    ELSE IF action = "manual"
    THEN IF response = "j" THEN [continue |-> TRUE, restart |-> FALSE]
         ELSE IF response = "r" THEN [continue |-> TRUE, restart |-> TRUE]
         ELSE [continue |-> FALSE, restart |-> FALSE]
    ELSE [continue |-> FALSE, restart |-> FALSE]

\* handle_health_failure: continue (TRUE) or abort (FALSE), and whether
\* restart_photos() was called.
handle_health_failure(action, response) ==
    IF action = "restart" THEN [continue |-> TRUE, restart |-> TRUE]
    ELSE IF action = "terminate" THEN [continue |-> FALSE, restart |-> FALSE]
    ELSE IF action = "manual"
    THEN IF response = "j" THEN [continue |-> TRUE, restart |-> FALSE]
         ELSE IF response = "r" THEN [continue |-> TRUE, restart |-> TRUE]
         ELSE [continue |-> FALSE, restart |-> FALSE]
    ELSE [continue |-> FALSE, restart |-> FALSE]

\* health_cycle with the recovery action run after every check.
health_cycle_AlwaysRecovers(probe, action, response) ==
    LET h == check_photos_health(max_memory_gb, max_errors, probe)
        d == handle_health_failure(action, response)
    IN  IF h.raised
        THEN [raised |-> TRUE, healthy |-> FALSE, reason |-> "raised",
              handled |-> FALSE, continue |-> FALSE, restart |-> FALSE]
        ELSE [raised |-> FALSE, healthy |-> h.value.healthy, reason |-> h.value.reason,
              handled |-> TRUE, continue |-> d.continue, restart |-> d.restart]

\* One check-and-recover cycle (lines 553-559): the verdict, whether
\* handle_health_failure was called, whether the import goes on and whether
\* restart_photos() ran; raised when the check let an exception out.
health_cycle(probe, action, response) ==
    LET h == check_photos_health(max_memory_gb, max_errors, probe)
        d == handle_health_failure(action, response)
    IN  IF h.raised
        THEN [raised |-> TRUE, healthy |-> FALSE, reason |-> "raised",
              handled |-> FALSE, continue |-> FALSE, restart |-> FALSE]
        ELSE IF h.value.healthy
        THEN [raised |-> FALSE, healthy |-> TRUE, reason |-> h.value.reason,
              handled |-> FALSE, continue |-> TRUE, restart |-> FALSE]
        ELSE [raised |-> FALSE, healthy |-> FALSE, reason |-> h.value.reason,
              handled |-> TRUE, continue |-> d.continue, restart |-> d.restart]

\* A cadence test that asks for a check before every item but the first.
ShouldCheck_AnyPosition(i, health_check_interval) ==
    i > 0

\* The cadence test without the i > 0 guard.
ShouldCheck_FromZero(i, health_check_interval) ==
    i % health_check_interval = 0

\* The cadence test of the item loop (line 552); i is the 0-based position.
ShouldCheck(i, health_check_interval) ==
    i > 0 /\ i % health_check_interval = 0

\* ------------------------------------------------------------------ state
VARIABLES
    cfg,          \* config.toml and the module globals read from it
    albums,       \* album directory -> number of media files staged in it
    exists,       \* the media files present under OUTPUT_DIR
    pc,           \* position in import_to_apple_photos / import_album_to_photos
    a,            \* index of the album directory being imported (sorted order)
    i,            \* 0-based position in media_files
    media_files,  \* the listing taken at the start of the album
    stats,        \* the run's ImportStats
    proc,         \* outcome of the latest subprocess.run of the import tool
    health,       \* verdict of the latest health check
    restarted,    \* restart_photos() has been called
    report,       \* the CSV report written by save_report
    invoked,      \* history: calls of import_single_file (file, album, position)
    toolLog,      \* history: files for which the import tool was run
    deleteLog,    \* history: files on which unlink() was called
    checkedAt,    \* history: <<album, position>> before which a check ran
    aborted,      \* history: import_album_to_photos returned False
    ret,          \* result of a direct call of one function
    arg,          \* argument of a direct call of one function
    world,        \* what main() has done outside the import loop
    hist          \* earlier runs over the same output tree

vars == << cfg, albums, exists, pc, a, i, media_files, stats, proc, health,
           restarted, report, invoked, toolLog, deleteLog, checkedAt,
           aborted, ret, arg, world, hist >>

\* Values of the variables a specification does not use.
NoArg == [kind |-> "none"]
NoWorld == [kind |-> "none"]
NoHist == [run |-> 1]

Files == {<<al, k>> : al \in 1..NumAlbums, k \in 1..MaxItems}

\* A listing that still shows the files that were deleted.
Listing_IgnoresDeletion(al) == [k \in 1..albums[al] |-> <<al, k>>]

\* The files of album al that exist, as iterdir() lists them.
Listing(al) ==
    LET present == {k \in 1..albums[al] : <<al, k>> \in exists}
        Ordered[S \in SUBSET (1..MaxItems)] ==
            IF S = {} THEN << >>
            ELSE LET m == CHOOSE x \in S : \A y \in S : x <= y
                 IN  << <<al, m>> >> \o Ordered[S \ {m}]
    IN  Ordered[present]

\* The album name passed to the importer for album directory al.
AlbumName(al) == al

\* The staged output tree: the first album holds MaxItems files, the last
\* one file, the ones between are empty directories.
Layout ==
    [al \in 1..NumAlbums |->
        IF al = 1 THEN MaxItems ELSE IF al = NumAlbums THEN 1 ELSE 0]

Configs ==
    [DRY_RUN : BOOLEAN, DELETE_AFTER_IMPORT : BOOLEAN,
     health_check_interval : 1..MaxInterval,
     on_health_failure : Actions,
     output_dir_exists : BOOLEAN]

\* Outcomes of the import tool drawn during a run.
TxtOk   == << "o","k" >>
TxtErr  == << "E","r","r" >>
TxtDupA == << "D","U","P","L","I" >>
TxtDupB == << "c","a","t","e" >>
RunProcs ==
    { Completed(0, TxtOk, << >>),
      Completed(1, << >>, TxtErr),
      Completed(1, TxtDupA, TxtDupB),
      TimeoutExpired,
      Raised(TxtErr) }

\* The outcomes drawn when runs are repeated: imported, error, duplicate.
ResumeProcs ==
    { Completed(0, TxtOk, << >>),
      Completed(1, << >>, TxtErr),
      Completed(1, TxtDupA, TxtDupB) }

\* The outcome drawn when only the cadence of the checks is looked at.
CadenceProcs == { Completed(0, TxtOk, << >>) }

NoReport == [saved |-> FALSE, rows |-> << >>]

\* One CSV row of save_report.
ReportRow(result) ==
    << result.filepath, result.album, result.status,
       IF result.error_message.some THEN result.error_message.text ELSE << >> >>

\* save_report: header aside, one row per entry of stats.results.
save_report(st) ==
    [saved |-> TRUE, rows |-> [k \in 1..Len(st.results) |-> ReportRow(st.results[k])]]

Init ==
    /\ cfg \in Configs
    /\ albums = Layout
    /\ exists = {f \in Files : f[2] <= Layout[f[1]]}
    /\ pc = "start"
    /\ a = 1
    /\ i = 0
    /\ media_files = << >>
    /\ stats = NewImportStats
    /\ proc = NoProc
    /\ health = "none"
    /\ restarted = FALSE
    /\ report = NoReport
    /\ invoked = << >>
    /\ toolLog = << >>
    /\ deleteLog = << >>
    /\ checkedAt = {}
    /\ aborted = FALSE
    /\ ret = Raise
    /\ arg = NoArg
    /\ world = NoWorld
    /\ hist = NoHist

\* The counters when every deletion attempt is counted.
after_unlink_CountsAttempts(st, del, unlink_ok) ==
    IF del THEN [st EXCEPT !.deleted = @ + 1] ELSE st

\* The counters after the deletion step of lines 567-582: stats.deleted is
\* incremented after media_file.unlink() returns; an exception of unlink is
\* caught and logged as a warning.
after_unlink(st, del, unlink_ok) ==
    IF del /\ unlink_ok THEN [st EXCEPT !.deleted = @ + 1] ELSE st

\* What subprocess.run can do in an import invocation of this run.
ToolOutcomes ==
    IF arg.kind = "resume" THEN ResumeProcs
    ELSE IF arg.kind = "cadence" THEN CadenceProcs
    ELSE RunProcs

\* import_to_apple_photos, lines 660-669.
StartImport ==
    /\ pc = "start"
    /\ pc' = IF cfg.output_dir_exists THEN "album" ELSE "returned"
    /\ stats' = NewImportStats
    /\ a' = 1
    /\ UNCHANGED << cfg, albums, exists, i, media_files, proc, health, restarted,
                    report, invoked, toolLog, deleteLog, checkedAt, aborted, ret >>
    /\ UNCHANGED << arg, world, hist >>

\* Next iteration of the album loop (line 671) and the head of
\* import_album_to_photos (lines 536-548): an album without media files
\* returns True at once.
BeginAlbum ==
    /\ pc = "album"
    /\ a <= NumAlbums
    /\ media_files' = Listing(a)
    /\ IF Listing(a) = << >>
       THEN /\ a' = a + 1
            /\ pc' = "album"
            /\ i' = i
       ELSE /\ a' = a
            /\ i' = 0
            /\ pc' = "item"
    /\ UNCHANGED << cfg, albums, exists, stats, proc, health, restarted, report,
                    invoked, toolLog, deleteLog, checkedAt, aborted, ret >>
    /\ UNCHANGED << arg, world, hist >>

\* The health check cycle of lines 552-559.
HealthCheck ==
    /\ pc = "item"
    /\ i < Len(media_files)
    /\ ShouldCheck(i, cfg.health_check_interval)
    /\ checkedAt' = checkedAt \cup {<<a, i>>}
    /\ \E probe \in Probes, response \in Responses :
         LET c == health_cycle(probe, cfg.on_health_failure, response)
         IN  IF c.raised
             THEN /\ pc' = "crashed"
                  /\ UNCHANGED << health, restarted, aborted >>
             ELSE /\ health' = IF c.healthy THEN "healthy" ELSE "unhealthy"
                  /\ restarted' = (restarted \/ c.restart)
                  /\ aborted' = ~c.continue
                  /\ pc' = IF c.continue THEN "import" ELSE "finalize"
    /\ UNCHANGED << cfg, albums, exists, a, i, media_files, stats, proc, report,
                    invoked, toolLog, deleteLog, ret >>
    /\ UNCHANGED << arg, world, hist >>

\* Lines 561-582: import one file, record the result, delete the source.
ImportItem ==
    /\ \/ pc = "import"
       \/ (pc = "item" /\ i < Len(media_files)
             /\ ~ShouldCheck(i, cfg.health_check_interval))
    /\ LET f == media_files[i + 1] IN
       \E p \in (IF InvokesTool(cfg.DRY_RUN) THEN ToolOutcomes ELSE {NoProc}),
          unlink_ok \in BOOLEAN :
         LET r == import_single_file(cfg.DRY_RUN, f, AlbumName(a), p)
         IN  /\ invoked' = Append(invoked, [file |-> f, album |-> a, pos |-> i])
             /\ toolLog' = IF InvokesTool(cfg.DRY_RUN) THEN Append(toolLog, f) ELSE toolLog
             /\ proc' = p
             /\ IF r.raised
                THEN /\ pc' = "crashed"
                     /\ UNCHANGED << stats, exists, deleteLog, i >>
                ELSE LET s1 == add_result(stats, r.value)
                         del == DeletesAfter(r.value.status, cfg.DELETE_AFTER_IMPORT,
                                             cfg.DRY_RUN)
                     IN  /\ deleteLog' = IF del THEN Append(deleteLog, f) ELSE deleteLog
                         /\ exists' = IF del /\ unlink_ok THEN exists \ {f} ELSE exists
                         /\ stats' = after_unlink(s1, del, unlink_ok)
                         /\ i' = i + 1
                         /\ pc' = "item"
    /\ UNCHANGED << cfg, albums, a, media_files, health, restarted, report,
                    checkedAt, aborted, ret >>
    /\ UNCHANGED << arg, world, hist >>

\* import_album_to_photos returns True (line 583); the album loop goes on.
EndAlbum ==
    /\ pc = "item"
    /\ i = Len(media_files)
    /\ a' = a + 1
    /\ pc' = "album"
    /\ UNCHANGED << cfg, albums, exists, i, media_files, stats, proc, health,
                    restarted, report, invoked, toolLog, deleteLog, checkedAt,
                    aborted, ret, arg, world, hist >>
    /\ UNCHANGED << arg, world, hist >>

\* The album loop is exhausted.
EndLoop ==
    /\ pc = "album"
    /\ a > NumAlbums
    /\ pc' = "finalize"
    /\ UNCHANGED << cfg, albums, exists, a, i, media_files, stats, proc, health,
                    restarted, report, invoked, toolLog, deleteLog, checkedAt,
                    aborted, ret, arg, world, hist >>
    /\ UNCHANGED << arg, world, hist >>

\* Lines 684-699: summary and save_report.
Finalize ==
    /\ pc = "finalize"
    /\ report' = save_report(stats)
    /\ pc' = "done"
    /\ UNCHANGED << cfg, albums, exists, a, i, media_files, stats, proc, health,
                    restarted, invoked, toolLog, deleteLog, checkedAt, aborted, ret >>
    /\ UNCHANGED << arg, world, hist >>

Next ==
    \/ StartImport
    \/ BeginAlbum
    \/ HealthCheck
    \/ ImportItem
    \/ EndAlbum
    \/ EndLoop
    \/ Finalize

Spec == Init /\ [][Next]_vars

\* ---------------------------------------------- the importer, called alone
\* Outputs of the import tool: short texts with and without an indicator,
\* in either case, an indicator split between stdout and stderr, and texts
\* longer than the error detail.
OutTexts ==
    { << >>, TxtOk, TxtDupA,
      << "S","k","i","p","p","i","n","g"," ","d","u","p" >>,
      << "s","k","i","p","p","e","d" >>,
      Repeat("x", ErrorDetailLen + 50),
      Repeat("x", ErrorDetailLen - 2) }
ErrTexts ==
    { << >>, TxtErr, TxtDupB,
      << "D","u","p","l","i","c","a","t","e" >>,
      Repeat("e", ErrorDetailLen + 1) }
ExitCodes == {0, 1, 2}

CallProcs ==
    {Completed(rc, out, err) : rc \in ExitCodes, out \in OutTexts, err \in ErrTexts}
        \cup {TimeoutExpired, Raised(TxtErr)}

CallFile == <<1, 1>>

ImporterInit ==
    /\ cfg \in {c \in Configs : c.output_dir_exists /\ c.health_check_interval = 1
                                  /\ c.on_health_failure = "terminate"}
    /\ proc \in CallProcs
    /\ pc = "call"
    /\ ret = Raise
    /\ arg = NoArg
    /\ world = NoWorld
    /\ hist = NoHist
    /\ albums = Layout
    /\ exists = {f \in Files : f[2] <= Layout[f[1]]}
    /\ a = 1
    /\ i = 0
    /\ media_files = << >>
    /\ stats = NewImportStats
    /\ health = "none"
    /\ restarted = FALSE
    /\ report = NoReport
    /\ invoked = << >>
    /\ toolLog = << >>
    /\ deleteLog = << >>
    /\ checkedAt = {}
    /\ aborted = FALSE

\* One call import_single_file(filepath, album_name) whose subprocess.run
\* behaves as proc says.
CallImporter ==
    /\ pc = "call"
    /\ ret' = import_single_file(cfg.DRY_RUN, CallFile, AlbumName(CallFile[1]), proc)
    /\ pc' = "returned"
    /\ UNCHANGED << cfg, albums, exists, a, i, media_files, stats, proc, health,
                    restarted, report, invoked, toolLog, deleteLog, checkedAt,
                    aborted >>
    /\ UNCHANGED << arg, world, hist >>

ImporterNext == CallImporter

ImporterSpec == ImporterInit /\ [][ImporterNext]_vars

\* ------------------------------------------ the health cycle, called alone
HealthInit ==
    /\ cfg \in {c \in Configs : c.output_dir_exists /\ ~c.DRY_RUN
                                  /\ c.DELETE_AFTER_IMPORT
                                  /\ c.health_check_interval = 1
                                  /\ c.on_health_failure = "terminate"}
    /\ arg \in [kind : {"health"}, probe : Probes, action : Actions,
                response : Responses]
    /\ pc = "check"
    /\ ret = Raise
    /\ proc = NoProc
    /\ world = NoWorld
    /\ hist = NoHist
    /\ albums = Layout
    /\ exists = {f \in Files : f[2] <= Layout[f[1]]}
    /\ a = 1
    /\ i = 0
    /\ media_files = << >>
    /\ stats = NewImportStats
    /\ health = "none"
    /\ restarted = FALSE
    /\ report = NoReport
    /\ invoked = << >>
    /\ toolLog = << >>
    /\ deleteLog = << >>
    /\ checkedAt = {}
    /\ aborted = FALSE

\* One cycle with what the system shows (arg.probe), the configured action
\* and the operator's answer.
RunHealthCycle ==
    /\ pc = "check"
    /\ ret' = health_cycle(arg.probe, arg.action, arg.response)
    /\ pc' = "checked"
    /\ UNCHANGED << cfg, albums, exists, a, i, media_files, stats, proc, health,
                    restarted, report, invoked, toolLog, deleteLog, checkedAt,
                    aborted, arg, world, hist >>

HealthNext == RunHealthCycle

HealthSpec == HealthInit /\ [][HealthNext]_vars

\* --------------------------------------------------- Album Name Sanitizer
\* The replacements dict of sanitize_album_name, in insertion order.
Replacements ==
    << << ",",  << " ", "-" >> >>,
       << "/",  << "-" >> >>,
       << "\\", << "-" >> >>,
       << ":",  << " ", "-" >> >>,
       << "\"", << "'" >> >>,
       << "<",  << >> >>,
       << ">",  << >> >>,
       << "|",  << "-" >> >>,
       << "?",  << >> >>,
       << "*",  << >> >> >>

\* \s of the regular expressions, and what str.strip() strips
IsSpace(c) == c \in {" ", "\t"}

\* name.replace(char, replacement)
RECURSIVE StrReplace(_, _, _)
StrReplace(name, char, replacement) ==
    IF name = << >> THEN << >>
    ELSE (IF Head(name) = char THEN replacement ELSE << Head(name) >>)
            \o StrReplace(Tail(name), char, replacement)

\* The loop over replacements.items(), entries k..Len(reps).
RECURSIVE ReplaceFrom(_, _, _)
ReplaceFrom(name, reps, k) ==
    IF k > Len(reps) THEN name
    ELSE ReplaceFrom(StrReplace(name, reps[k][1], reps[k][2]), reps, k + 1)

\* name with its leading whitespace removed (lstrip)
RECURSIVE DropSpaces(_)
DropSpaces(name) ==
    IF name # << >> /\ IsSpace(Head(name)) THEN DropSpaces(Tail(name)) ELSE name

\* name with its leading hyphens removed
RECURSIVE DropHyphens(_)
DropHyphens(name) ==
    IF name # << >> /\ Head(name) = "-" THEN DropHyphens(Tail(name)) ELSE name

\* re.sub(r'\s+', ' ', name)
RECURSIVE CollapseSpaces(_)
CollapseSpaces(name) ==
    IF name = << >> THEN << >>
    ELSE IF IsSpace(Head(name)) THEN << " " >> \o CollapseSpaces(DropSpaces(name))
    ELSE << Head(name) >> \o CollapseSpaces(Tail(name))

\* re.sub(r'-+', '-', name)
RECURSIVE CollapseHyphens(_)
CollapseHyphens(name) ==
    IF name = << >> THEN << >>
    ELSE IF Head(name) = "-" THEN << "-" >> \o CollapseHyphens(DropHyphens(name))
    ELSE << Head(name) >> \o CollapseHyphens(Tail(name))

\* re.sub(r'\s*-\s*', ' - ', name): a match starts where a (possibly empty)
\* run of whitespace is followed by a hyphen, and takes the whitespace after it.
RECURSIVE NormalizeHyphens(_)
NormalizeHyphens(name) ==
    IF name = << >> THEN << >>
    ELSE LET rest == DropSpaces(name)
         IN  IF rest # << >> /\ Head(rest) = "-"
             THEN << " ", "-", " " >> \o NormalizeHyphens(DropSpaces(Tail(rest)))
             ELSE << Head(name) >> \o NormalizeHyphens(Tail(name))

\* name with its trailing whitespace removed (rstrip)
RECURSIVE DropTrailingSpaces(_)
DropTrailingSpaces(name) ==
    IF name # << >> /\ IsSpace(name[Len(name)])
    THEN DropTrailingSpaces(SubSeq(name, 1, Len(name) - 1))
    ELSE name

\* name.strip()
strip(name) == DropTrailingSpaces(DropSpaces(name))

\* sanitize_album_name with the character replacements done after the
\* regular expressions.
sanitize_album_name_ReplaceLast(name) ==
    strip(ReplaceFrom(NormalizeHyphens(CollapseHyphens(CollapseSpaces(name))),
                      Replacements, 1))

\* sanitize_album_name with the pipe missing from the replacements.
sanitize_album_name_NoPipe(name) ==
    strip(NormalizeHyphens(CollapseHyphens(CollapseSpaces(
        ReplaceFrom(name, SelectSeq(Replacements, LAMBDA r : r[1] # "|"), 1)))))

sanitize_album_name(name) ==
    strip(NormalizeHyphens(CollapseHyphens(CollapseSpaces(
        ReplaceFrom(name, Replacements, 1)))))

\* Longest raw album name drawn.
MaxNameLen == 3

NameChars ==
    { ",", "/", "\\", ":", "\"", "<", ">", "|", "?", "*", "-", " ", "\t", "a" }
RawNames == UNION {[1..n -> NameChars] : n \in 0..MaxNameLen}

SanitizeInit ==
    /\ cfg \in {c \in Configs : c.output_dir_exists /\ ~c.DRY_RUN
                                  /\ c.DELETE_AFTER_IMPORT
                                  /\ c.health_check_interval = 1
                                  /\ c.on_health_failure = "terminate"}
    /\ arg \in [kind : {"album"}, name : RawNames]
    /\ pc = "staging"
    /\ ret = Raise
    /\ proc = NoProc
    /\ world = NoWorld
    /\ hist = NoHist
    /\ albums = Layout
    /\ exists = {f \in Files : f[2] <= Layout[f[1]]}
    /\ a = 1
    /\ i = 0
    /\ media_files = << >>
    /\ stats = NewImportStats
    /\ health = "none"
    /\ restarted = FALSE
    /\ report = NoReport
    /\ invoked = << >>
    /\ toolLog = << >>
    /\ deleteLog = << >>
    /\ checkedAt = {}
    /\ aborted = FALSE

\* process_single_album, line 450 and 455: the album name computed from the
\* raw directory name names the staging directory.
NameAtStaging ==
    /\ pc = "staging"
    /\ ret' = [staged |-> sanitize_album_name(arg.name), imported |-> << >>]
    /\ pc' = "staged"
    /\ UNCHANGED << cfg, albums, exists, a, i, media_files, stats, proc, health,
                    restarted, report, invoked, toolLog, deleteLog, checkedAt,
                    aborted, arg, world, hist >>

\* import_album_to_photos, line 536: the album name computed from the name
\* of the staging directory.
NameAtImport ==
    /\ pc = "staged"
    /\ ret' = [ret EXCEPT !.imported = sanitize_album_name(ret.staged)]
    /\ pc' = "named"
    /\ UNCHANGED << cfg, albums, exists, a, i, media_files, stats, proc, health,
                    restarted, report, invoked, toolLog, deleteLog, checkedAt,
                    aborted, arg, world, hist >>

SanitizeNext ==
    \/ NameAtStaging
    \/ NameAtImport

SanitizeSpec == SanitizeInit /\ [][SanitizeNext]_vars

\* -------------------------------------------------------- Sidecar Resolver
\* File names are character sequences; a directory is the set of the names
\* of the files in it.
DotJson == << ".", "j", "s", "o", "n" >>

\* Index of the last "." of name, 0 when there is none.
LastDot(name) ==
    IF \E k \in 1..Len(name) : name[k] = "."
    THEN CHOOSE k \in 1..Len(name) :
            name[k] = "." /\ \A j \in (k + 1)..Len(name) : name[j] # "."
    ELSE 0

\* PurePath.suffix: from the last dot on, unless the name starts or ends
\* with that dot.
suffix(name) ==
    IF LastDot(name) > 1 /\ LastDot(name) < Len(name)
    THEN SubSeq(name, LastDot(name), Len(name)) ELSE << >>

\* PurePath.stem
stem(name) == SubSeq(name, 1, Len(name) - Len(suffix(name)))

\* PurePath.with_suffix
with_suffix(name, sfx) == stem(name) \o sfx

\* text.startswith(prefix)
startswith(text, prefix) ==
    Len(prefix) <= Len(text) /\ SubSeq(text, 1, Len(prefix)) = prefix

\* text.replace(sub, '')
RECURSIVE RemoveAll(_, _)
RemoveAll(text, sub) ==
    IF Len(text) < Len(sub) \/ text = << >> THEN text
    ELSE IF startswith(text, sub)
    THEN RemoveAll(SubSeq(text, Len(sub) + 1, Len(text)), sub)
    ELSE << Head(text) >> \o RemoveAll(Tail(text), sub)

\* parent.glob("*.json")
GlobJson(dir) ==
    {n \in dir : Len(n) >= Len(DotJson)
                   /\ SubSeq(n, Len(n) - Len(DotJson) + 1, Len(n)) = DotJson}

\* json_file.stem.replace('.jpg', '').replace('.jpeg', '').replace('.heic', '')
json_stem(json_file) ==
    RemoveAll(RemoveAll(RemoveAll(stem(json_file), << ".", "j", "p", "g" >>), << ".", "j", "p", "e", "g" >>), << ".", "h", "e", "i", "c" >>)

\* find_json_for_media with the truncated name tried before the exact one.
find_json_for_media_TruncatedFirst(media_path, dir) ==
    IF with_suffix(media_path, DotJson) \in dir
    THEN {Some(with_suffix(media_path, DotJson))}
    ELSE IF with_suffix(media_path, suffix(media_path) \o DotJson) \in dir
    THEN {Some(with_suffix(media_path, suffix(media_path) \o DotJson))}
    ELSE LET hits == {j \in GlobJson(dir) :
                         \/ startswith(stem(media_path), json_stem(j))
                         \/ startswith(json_stem(j), stem(media_path))}
         IN  IF hits # {} THEN {Some(j) : j \in hits} ELSE {None}

\* find_json_for_media: the values it can return for a media file in a
\* directory; the fuzzy pass returns the first match in the order in which
\* glob lists the directory, which is any of the matches.
find_json_for_media(media_path, dir) ==
    IF with_suffix(media_path, suffix(media_path) \o DotJson) \in dir
    THEN {Some(with_suffix(media_path, suffix(media_path) \o DotJson))}
    ELSE IF with_suffix(media_path, DotJson) \in dir
    THEN {Some(with_suffix(media_path, DotJson))}
    ELSE LET hits == {j \in GlobJson(dir) :
                         \/ startswith(stem(media_path), json_stem(j))
                         \/ startswith(json_stem(j), stem(media_path))}
         IN  IF hits # {} THEN {Some(j) : j \in hits} ELSE {None}

\* Media files and the sidecars that may lie beside them.
MediaNames == { << "a", "b", ".", "j", "p", "g" >>, << "a", ".", "j", "p", "g" >>, << "a", "b", "c", ".", "j", "p", "e", "g" >> }
SidecarPool ==
    { << "a", "b", ".", "j", "p", "g", ".", "j", "s", "o", "n" >>,
      << "a", "b", ".", "j", "s", "o", "n" >>,
      << "a", ".", "j", "p", "g", ".", "j", "s", "o", "n" >>,
      << "a", "b", "c", ".", "j", "s", "o", "n" >>,
      << "a", "b", ".", "j", "p", ".", "j", "s", "o", "n" >>,
      << "b", ".", "j", "s", "o", "n" >>,
      << "a", "b", "c", ".", "j", "p", "e", "g", ".", "j", "s", "o", "n" >> }

SidecarInit ==
    /\ cfg \in {c \in Configs : c.output_dir_exists /\ ~c.DRY_RUN
                                  /\ c.DELETE_AFTER_IMPORT
                                  /\ c.health_check_interval = 1
                                  /\ c.on_health_failure = "terminate"}
    /\ arg \in [kind : {"sidecar"}, media : MediaNames, dir : SUBSET SidecarPool,
                others : SUBSET MediaNames]
    /\ pc = "resolve"
    /\ ret = None
    /\ proc = NoProc
    /\ world = NoWorld
    /\ hist = NoHist
    /\ albums = Layout
    /\ exists = {f \in Files : f[2] <= Layout[f[1]]}
    /\ a = 1
    /\ i = 0
    /\ media_files = << >>
    /\ stats = NewImportStats
    /\ health = "none"
    /\ restarted = FALSE
    /\ report = NoReport
    /\ invoked = << >>
    /\ toolLog = << >>
    /\ deleteLog = << >>
    /\ checkedAt = {}
    /\ aborted = FALSE

\* One call find_json_for_media(media_path) in a directory holding the
\* sidecars arg.dir and, beside media_path, the media files arg.others.
ResolveSidecar ==
    /\ pc = "resolve"
    /\ ret' \in find_json_for_media(arg.media, arg.dir)
    /\ pc' = "resolved"
    /\ UNCHANGED << cfg, albums, exists, a, i, media_files, stats, proc, health,
                    restarted, report, invoked, toolLog, deleteLog, checkedAt,
                    aborted, arg, world, hist >>

SidecarNext == ResolveSidecar

SidecarSpec == SidecarInit /\ [][SidecarNext]_vars

\* ------------------------------------------------------ Metadata Extractor
MaxCoord == 1
MaxTimestamp == 1

\* The import orchestrator's variables before import_to_apple_photos runs.
ImportAtRest ==
    /\ albums = Layout
    /\ exists = {f \in Files : f[2] <= Layout[f[1]]}
    /\ a = 1
    /\ i = 0
    /\ media_files = << >>
    /\ stats = NewImportStats
    /\ proc = NoProc
    /\ health = "none"
    /\ restarted = FALSE
    /\ report = NoReport
    /\ invoked = << >>
    /\ toolLog = << >>
    /\ deleteLog = << >>
    /\ checkedAt = {}
    /\ aborted = FALSE

\* The content of a sidecar file.  json is "invalid" when json.load raises.
\* photoTakenTime, geoData and geoDataExif are absent keys, objects, or
\* "malformed": a value on which .get(...) or int(...) raises.  A
\* coordinate key missing from an object reads as 0 (geo.get(key, 0)), a
\* missing or empty description or title as the empty text.
TimeFields ==
    [kind : {"absent", "malformed"}, timestamp : {0}]
        \cup [kind : {"object"}, timestamp : 0..MaxTimestamp]
GeoFields ==
    [kind : {"absent", "malformed"}, latitude : {0}, longitude : {0}]
        \cup [kind : {"object"}, latitude : (0 - MaxCoord)..MaxCoord,
              longitude : (0 - MaxCoord)..MaxCoord]
NoTime == [kind |-> "absent", timestamp |-> 0]
NoGeo == [kind |-> "absent", latitude |-> 0, longitude |-> 0]
InvalidJson ==
    [json |-> "invalid", photoTakenTime |-> NoTime, geoData |-> NoGeo,
     geoDataExif |-> NoGeo, description |-> << >>, title |-> << >>]
SidecarDocs ==
    {InvalidJson} \cup
    [json : {"object"}, photoTakenTime : TimeFields, geoData : GeoFields,
     geoDataExif : GeoFields, description : {<< >>, << "d" >>},
     title : {<< >>, << "t" >>}]

\* The result dict: timestamp 0, has_geo FALSE and the empty text stand for
\* a key that is not in the dict (date_taken is in it exactly when
\* timestamp is).
EmptyMetadata ==
    [timestamp |-> 0, has_geo |-> FALSE, latitude |-> 0, longitude |-> 0,
     description |-> << >>, title |-> << >>]

\* `lat != 0 and lon != 0` (lines 384 and 392)
UsableGeo(geo) == geo.kind = "object" /\ geo.latitude # 0 /\ geo.longitude # 0

\* parse_google_json where geoDataExif is read whenever it is there and
\* overrides geoData.
parse_google_json_ExifOverrides(doc) ==
    IF doc.json = "invalid" \/ doc.photoTakenTime.kind = "malformed"
         \/ doc.geoData.kind = "malformed"
    THEN [raised |-> TRUE, value |-> EmptyMetadata, exif_read |-> FALSE]
    ELSE IF doc.geoDataExif.kind = "malformed"
    THEN [raised |-> TRUE, value |-> EmptyMetadata, exif_read |-> TRUE]
    ELSE LET geo == IF UsableGeo(doc.geoDataExif) THEN doc.geoDataExif
                    ELSE doc.geoData
         IN  [raised |-> FALSE,
              value |-> [timestamp |-> IF doc.photoTakenTime.timestamp > 0
                                       THEN doc.photoTakenTime.timestamp ELSE 0,
                         has_geo |-> UsableGeo(geo),
                         latitude |-> IF UsableGeo(geo) THEN geo.latitude ELSE 0,
                         longitude |-> IF UsableGeo(geo) THEN geo.longitude ELSE 0,
                         description |-> doc.description,
                         title |-> doc.title],
              exif_read |-> doc.geoDataExif.kind # "absent"]

\* parse_google_json: raised when an exception leaves the function, value
\* the dict it returns, exif_read whether data['geoDataExif'] was read
\* (line 389).
parse_google_json(doc) ==
    IF doc.json = "invalid" \/ doc.photoTakenTime.kind = "malformed"
         \/ doc.geoData.kind = "malformed"
    THEN [raised |-> TRUE, value |-> EmptyMetadata, exif_read |-> FALSE]
    ELSE LET primary == UsableGeo(doc.geoData)
             fallback == doc.geoDataExif.kind # "absent" /\ ~primary
             geo == IF primary THEN doc.geoData ELSE doc.geoDataExif
         IN  IF fallback /\ doc.geoDataExif.kind = "malformed"
             THEN [raised |-> TRUE, value |-> EmptyMetadata, exif_read |-> TRUE]
             ELSE [raised |-> FALSE,
                   value |-> [timestamp |-> IF doc.photoTakenTime.timestamp > 0
                                            THEN doc.photoTakenTime.timestamp
                                            ELSE 0,
                              has_geo |-> UsableGeo(geo),
                              latitude |-> IF UsableGeo(geo) THEN geo.latitude ELSE 0,
                              longitude |-> IF UsableGeo(geo) THEN geo.longitude ELSE 0,
                              description |-> doc.description,
                              title |-> doc.title],
                   exif_read |-> fallback]

ParseInit ==
    /\ cfg \in {c \in Configs : c.output_dir_exists /\ ~c.DRY_RUN
                                  /\ c.DELETE_AFTER_IMPORT
                                  /\ c.health_check_interval = 1
                                  /\ c.on_health_failure = "terminate"}
    /\ arg \in [kind : {"sidecar doc"}, doc : SidecarDocs]
    /\ pc = "parse"
    /\ ret = [raised |-> FALSE, value |-> EmptyMetadata, exif_read |-> FALSE]
    /\ world = NoWorld
    /\ hist = NoHist
    /\ ImportAtRest

\* One call parse_google_json(json_path) on a file holding arg.doc.
ParseSidecar ==
    /\ pc = "parse"
    /\ ret' = parse_google_json(arg.doc)
    /\ pc' = "parsed"
    /\ UNCHANGED << cfg, albums, exists, a, i, media_files, stats, proc, health,
                    restarted, report, invoked, toolLog, deleteLog, checkedAt,
                    aborted, arg, world, hist >>

ParseNext == ParseSidecar

ParseSpec == ParseInit /\ [][ParseNext]_vars

\* ------------------------------------------------------ main and its phases
\* The answer to the phase prompt after .strip().upper() and the default;
\* "X" is any answer the menu does not list.
Choices == {"1", "2", "3", "3B", "A", "T", "X"}

\* check_dependencies that gives up only when both tools are missing.
check_dependencies_BothMissing(exiftool, osxphotos) ==
    LET missing == (IF exiftool THEN << >> ELSE << "exiftool" >>)
                     \o (IF osxphotos THEN << >> ELSE << "osxphotos" >>)
    IN  [exit |-> Len(missing) = 2, missing |-> missing]

\* check_dependencies: exiftool is whether `which exiftool` exits with 0,
\* osxphotos whether `import osxphotos` succeeds; exit is sys.exit(1).
check_dependencies(exiftool, osxphotos) ==
    LET missing == (IF exiftool THEN << >> ELSE << "exiftool" >>)
                     \o (IF osxphotos THEN << >> ELSE << "osxphotos" >>)
    IN  [exit |-> missing # << >>, missing |-> missing]

\* The media files of the extracted tree: album al of the takeout holds the
\* files the staged album al holds.
SourceFiles == {f \in Files : f[2] <= Layout[f[1]]}
SourceListing(al) == [k \in 1..Layout[al] |-> <<al, k>>]

\* Sidecars that staging meets.
DocFull ==
    [json |-> "object", photoTakenTime |-> [kind |-> "object", timestamp |-> 1],
     geoData |-> NoGeo, geoDataExif |-> NoGeo, description |-> << "d" >>,
     title |-> << >>]
DocEmpty ==
    [json |-> "object", photoTakenTime |-> NoTime, geoData |-> NoGeo,
     geoDataExif |-> NoGeo, description |-> << >>, title |-> << >>]
DocBadTime ==
    [json |-> "object", photoTakenTime |-> [kind |-> "malformed", timestamp |-> 0],
     geoData |-> NoGeo, geoDataExif |-> NoGeo, description |-> << "d" >>,
     title |-> << >>]

\* What staging meets for one media file: whether find_json_for_media finds
\* a sidecar, what that file holds, and whether shutil.copy2 succeeds.
ItemCase(found, doc, copy_ok) == [found |-> found, doc |-> doc, copy_ok |-> copy_ok]
ItemCases ==
    { ItemCase(FALSE, DocEmpty, TRUE),
      ItemCase(TRUE, DocFull, TRUE),
      ItemCase(TRUE, DocEmpty, TRUE),
      ItemCase(TRUE, InvalidJson, TRUE),
      ItemCase(TRUE, DocBadTime, TRUE),
      ItemCase(TRUE, DocFull, FALSE) }

\* The loop body of process_single_album for one media file (lines
\* 467-484): whether the file was copied, whether exiftool was run on the
\* copy and with which metadata, and the counter that was incremented.
stage_item(dry_run, c) ==
    IF dry_run
    THEN [copied |-> FALSE, tagged |-> FALSE, metadata |-> EmptyMetadata,
          counted |-> "processed"]
    ELSE IF ~c.copy_ok
    THEN [copied |-> FALSE, tagged |-> FALSE, metadata |-> EmptyMetadata,
          counted |-> "errors"]
    ELSE IF ~c.found
    THEN [copied |-> TRUE, tagged |-> FALSE, metadata |-> EmptyMetadata,
          counted |-> "processed"]
    ELSE IF parse_google_json(c.doc).raised
    THEN [copied |-> TRUE, tagged |-> FALSE, metadata |-> EmptyMetadata,
          counted |-> "errors"]
    ELSE [copied |-> TRUE,
          tagged |-> parse_google_json(c.doc).value # EmptyMetadata,
          metadata |-> parse_google_json(c.doc).value,
          counted |-> "processed"]

\* What the run has done outside the program so far, besides what the
\* import orchestrator's variables record: directories created by mkdir,
\* archives extracted, whether the takeout tree is in the working directory,
\* files copied to the output tree, exiftool runs, and the counters of
\* process_all_albums.
NewWorld(choice, tree) ==
    [kind |-> "main", choice |-> choice, mkdirs |-> {}, extracted |-> {},
     tree |-> tree, copied |-> {}, tagged |-> {}, failed |-> {},
     total_stats |-> [total |-> 0, processed |-> 0, skipped |-> 0, errors |-> 0]]

\* Path.mkdir(parents=True, exist_ok=True): the directories it creates.  The
\* working directory is there before the run exactly when the takeout tree
\* is, a target album directory exactly when the output tree holds files
\* of that album.
mkdir(dir) ==
    IF \/ dir \in world.mkdirs
       \/ (dir[1] = "work" /\ arg.tree)
       \/ (dir[1] = "output" /\ cfg.output_dir_exists)
       \/ (dir[1] = "album" /\ cfg.output_dir_exists /\ Layout[dir[2]] > 0)
    THEN {} ELSE {dir}

\* Where main goes after process_all_albums.
AfterStaging == IF world.choice = "A" THEN "start" ELSE "done"

\* main, lines 813-835: configuration banner, dependency check, phase
\* prompt.
Main ==
    /\ pc = "main"
    /\ IF check_dependencies(arg.exiftool, arg.osxphotos).exit
       THEN /\ pc' = "exited"
            /\ UNCHANGED << cfg, world >>
       ELSE LET choice == IF arg.choice = "T" THEN "A" ELSE arg.choice
            IN  /\ cfg' = [cfg EXCEPT !.DRY_RUN = @ \/ arg.choice = "T"]
                /\ world' = [world EXCEPT !.choice = choice]
                /\ pc' = IF choice \in {"1", "A"} THEN "extract"
                         ELSE IF choice = "2" THEN "stage"
                         ELSE IF choice = "3" THEN "start"
                         ELSE IF choice = "3B" THEN "batch"
                         ELSE "done"
    /\ UNCHANGED << albums, exists, a, i, media_files, stats, proc, health,
                    restarted, report, invoked, toolLog, deleteLog, checkedAt,
                    aborted, ret, arg, hist >>

\* extract_all_zips: a BadZipFile is logged and skipped.
ExtractAllZips ==
    /\ pc = "extract"
    /\ LET good == {k \in 1..Len(arg.zips) : arg.zips[k] = "ok"}
       IN  world' = [world EXCEPT
                        !.mkdirs = @ \cup mkdir(<<"work", 0>>),
                        !.extracted = IF cfg.DRY_RUN THEN @ ELSE good,
                        !.tree = @ \/ (~cfg.DRY_RUN /\ good # {})]
    /\ pc' = IF world.choice = "A" THEN "stage" ELSE "done"
    /\ UNCHANGED << cfg, albums, exists, a, i, media_files, stats, proc, health,
                    restarted, report, invoked, toolLog, deleteLog, checkedAt,
                    aborted, ret, arg, hist >>

\* process_all_albums, lines 489-514.
StartStaging ==
    /\ pc = "stage"
    /\ world' = [world EXCEPT !.mkdirs = @ \cup mkdir(<<"output", 0>>)]
    /\ pc' = IF world.tree THEN "stage_album" ELSE AfterStaging
    /\ a' = 1
    /\ UNCHANGED << cfg, albums, exists, i, media_files, stats, proc, health,
                    restarted, report, invoked, toolLog, deleteLog, checkedAt,
                    aborted, ret, arg, hist >>

\* Next album of process_all_albums and the head of process_single_album
\* (lines 449-459).
StageAlbum ==
    /\ pc = "stage_album"
    /\ a <= NumAlbums
    /\ IF arg.album_filter # {} /\ AlbumName(a) \notin arg.album_filter
       THEN /\ a' = a + 1
            /\ UNCHANGED << pc, world, media_files, i >>
       ELSE /\ world' = [world EXCEPT !.mkdirs = @ \cup mkdir(<<"album", a>>)]
            /\ media_files' = SourceListing(a)
            /\ i' = 0
            /\ pc' = "stage_item"
            /\ a' = a
    /\ UNCHANGED << cfg, albums, exists, stats, proc, health, restarted, report,
                    invoked, toolLog, deleteLog, checkedAt, aborted, ret, arg,
                    hist >>

\* One iteration of the loop of process_single_album (lines 461-484).
StageItem ==
    /\ pc = "stage_item"
    /\ i < Len(media_files)
    /\ LET f == media_files[i + 1]
           r == stage_item(cfg.DRY_RUN, arg.items[f])
       IN  world' = [world EXCEPT
                        !.copied = IF r.copied THEN @ \cup {f} ELSE @,
                        !.tagged = IF r.tagged
                                   THEN @ \cup {[file |-> f, metadata |-> r.metadata]}
                                   ELSE @,
                        !.failed = IF r.counted = "errors" THEN @ \cup {f} ELSE @,
                        !.total_stats.total = @ + 1,
                        !.total_stats.processed =
                            IF r.counted = "processed" THEN @ + 1 ELSE @,
                        !.total_stats.errors =
                            IF r.counted = "errors" THEN @ + 1 ELSE @]
    /\ i' = i + 1
    /\ UNCHANGED << cfg, albums, exists, pc, a, media_files, stats, proc, health,
                    restarted, report, invoked, toolLog, deleteLog, checkedAt,
                    aborted, ret, arg, hist >>

\* process_single_album returns its counters (line 486).
EndStageAlbum ==
    /\ pc = "stage_item"
    /\ i = Len(media_files)
    /\ a' = a + 1
    /\ pc' = "stage_album"
    /\ UNCHANGED << cfg, albums, exists, i, media_files, stats, proc, health,
                    restarted, report, invoked, toolLog, deleteLog, checkedAt,
                    aborted, ret, arg, world, hist >>

\* The album loop of process_all_albums is exhausted (line 528).
EndStaging ==
    /\ pc = "stage_album"
    /\ a > NumAlbums
    /\ pc' = AfterStaging
    /\ a' = 1
    /\ i' = 0
    /\ media_files' = << >>
    /\ UNCHANGED << cfg, albums, exists, stats, proc, health, restarted, report,
                    invoked, toolLog, deleteLog, checkedAt, aborted, ret, arg,
                    world, hist >>

StageNext ==
    \/ StartStaging
    \/ StageAlbum
    \/ StageItem
    \/ EndStageAlbum
    \/ EndStaging

\* Phase 2 alone (choice "2") over an extracted takeout tree.
StageInit ==
    /\ cfg \in {c \in Configs : ~c.DELETE_AFTER_IMPORT
                                  /\ c.health_check_interval = 1
                                  /\ c.on_health_failure = "terminate"}
    /\ arg \in [kind : {"main"}, exiftool : {TRUE}, osxphotos : {TRUE},
                choice : {"2"}, zips : {<< >>}, tree : {TRUE},
                album_filter : {{}, {AlbumName(1)}},
                items : [SourceFiles -> ItemCases]]
    /\ world = NewWorld("2", TRUE)
    /\ pc = "stage"
    /\ ret = Raise
    /\ hist = NoHist
    /\ ImportAtRest

StageSpec == StageInit /\ [][StageNext]_vars

\* ------------------------------------------------------------- batch import
MaxRows == 2

\* Files that the rows of a report name: two files of the output tree and
\* a path at which there is no file.
RowFileA == <<1, 1>>
RowFileB == <<NumAlbums, 1>>
RowFileGone == <<2, 1>>

\* A row of the report CSV as csv.DictReader yields it; a column that is
\* missing or empty is None, respectively "".
ReportNames ==
    { [filename |-> Some(RowFileA), filepath |-> None, file |-> None],
      [filename |-> None, filepath |-> Some(RowFileA), file |-> None],
      [filename |-> None, filepath |-> None, file |-> Some(RowFileB)],
      [filename |-> None, filepath |-> None, file |-> None],
      [filename |-> Some(RowFileGone), filepath |-> Some(RowFileB), file |-> None] }
ReportStatuses ==
    { [imported |-> "True", status |-> ""],
      [imported |-> "False", status |-> "duplicate"],
      [imported |-> "", status |-> "skipped_duplicate"],
      [imported |-> "", status |-> "error"] }
ReportRows ==
    { [filename |-> n.filename, filepath |-> n.filepath, file |-> n.file,
       imported |-> st.imported, status |-> st.status] :
          n \in ReportNames, st \in ReportStatuses }
RECURSIVE RowSeqs(_)
RowSeqs(n) ==
    IF n = 0 THEN { << >> }
    ELSE RowSeqs(n - 1) \cup
         { Append(rows, r) : rows \in {q \in RowSeqs(n - 1) : Len(q) = n - 1},
                             r \in ReportRows }

\* row.get('filename') or row.get('filepath') or row.get('file')
RowPath(row) ==
    IF row.filename.some THEN row.filename
    ELSE IF row.filepath.some THEN row.filepath
    ELSE row.file

\* row.get('imported') or row.get('status')
RowStatus(row) == IF row.imported # "" THEN row.imported ELSE row.status

\* The status values of line 779.
DeletableStatuses ==
    {"True", "true", "1", "imported", "duplicate", "skipped_duplicate"}

\* delete_imported_files_from_report with the status test left out.
delete_imported_files_from_report_AnyStatus(rows, read, present, unlink_fails) ==
    { RowPath(rows[k]).text :
        k \in {j \in 1..read : /\ RowPath(rows[j]).some
                               /\ RowPath(rows[j]).text \in present
                               /\ RowPath(rows[j]).text \notin unlink_fails} }

\* delete_imported_files_from_report: the files it removes.  read is the
\* number of rows the reader yields before it ends or raises, present the
\* files that exist, unlink_fails those whose unlink() raises.
delete_imported_files_from_report(rows, read, present, unlink_fails) ==
    { RowPath(rows[k]).text :
        k \in {j \in 1..read : /\ RowPath(rows[j]).some
                               /\ RowStatus(rows[j]) \in DeletableStatuses
                               /\ RowPath(rows[j]).text \in present
                               /\ RowPath(rows[j]).text \notin unlink_fails} }

\* What the batch invocation of the import tool does: its exit (or an
\* exception of subprocess.run), whether it leaves a report file, and the
\* rows of that file.
BatchRun(p, report_exists, rows) ==
    [proc |-> p, report_exists |-> report_exists, rows |-> rows]
BatchProcs == { Completed(0, << >>, << >>), Completed(1, << >>, << >>), Raised(TxtErr) }
BatchRuns ==
    [proc : BatchProcs, report_exists : BOOLEAN, rows : RowSeqs(MaxRows)]

\* import_to_apple_photos_batch (lines 706-752) with
\* delete_imported_files_from_report.
BatchImport ==
    /\ pc = "batch"
    /\ pc' = "done"
    /\ IF ~cfg.output_dir_exists \/ cfg.DRY_RUN
       THEN UNCHANGED << proc, report, exists >>
       ELSE /\ proc' = arg.batch.proc
            /\ report' = [saved |-> arg.batch.report_exists,
                          rows |-> IF arg.batch.report_exists
                                   THEN arg.batch.rows ELSE << >>]
            /\ IF /\ arg.batch.proc.kind = "completed"
                  /\ arg.batch.proc.returncode = 0
                  /\ cfg.DELETE_AFTER_IMPORT
                  /\ arg.batch.report_exists
               THEN \E read \in 0..Len(arg.batch.rows),
                       unlink_fails \in SUBSET {RowFileA, RowFileB} :
                      exists' = exists \ delete_imported_files_from_report(
                                    arg.batch.rows, read, exists, unlink_fails)
               ELSE exists' = exists
    /\ UNCHANGED << cfg, albums, a, i, media_files, stats, health, restarted,
                    invoked, toolLog, deleteLog, checkedAt, aborted, ret, arg,
                    world, hist >>

BatchInit ==
    /\ cfg \in {c \in Configs : c.output_dir_exists
                                  /\ c.health_check_interval = 1
                                  /\ c.on_health_failure = "terminate"}
    /\ arg \in [kind : {"batch"}, batch : BatchRuns]
    /\ world = NoWorld
    /\ hist = NoHist
    /\ pc = "batch"
    /\ ret = Raise
    /\ ImportAtRest

BatchNext == BatchImport

BatchSpec == BatchInit /\ [][BatchNext]_vars

\* The batch run of a run of main: the tool succeeds and reports the first
\* file as imported and another as failed.
MainBatchRuns ==
    { BatchRun(Completed(0, << >>, << >>), TRUE,
               << [filename |-> Some(RowFileA), filepath |-> None, file |-> None,
                   imported |-> "True", status |-> ""],
                  [filename |-> None, filepath |-> None, file |-> Some(RowFileB),
                   imported |-> "", status |-> "error"] >>) }

\* The sidecars of a run of main: by position in the album, a full
\* sidecar, one that is not JSON, none, a full one again.
MixedItems ==
    [f \in SourceFiles |->
        IF f[2] = 1 THEN ItemCase(TRUE, DocFull, TRUE)
        ELSE IF f[2] = 2 THEN ItemCase(TRUE, InvalidJson, TRUE)
        ELSE IF f[2] = 3 THEN ItemCase(FALSE, DocEmpty, TRUE)
        ELSE ItemCase(TRUE, DocFull, TRUE)]

\* A run of main over an output tree that an earlier run has staged.
MainInit ==
    /\ cfg \in {c \in Configs : c.output_dir_exists
                                  /\ c.health_check_interval = 1
                                  /\ c.on_health_failure \in {"restart", "terminate"}}
    /\ arg \in [kind : {"main"}, exiftool : BOOLEAN, osxphotos : BOOLEAN,
                choice : Choices, zips : {<< "ok", "bad" >>}, tree : BOOLEAN,
                album_filter : {{}}, items : {MixedItems},
                batch : MainBatchRuns]
    /\ world = NewWorld("none", arg.tree)
    /\ pc = "main"
    /\ ret = Raise
    /\ hist = NoHist
    /\ ImportAtRest

MainNext ==
    \/ Main
    \/ ExtractAllZips
    \/ StartStaging
    \/ StageAlbum
    \/ StageItem
    \/ EndStageAlbum
    \/ EndStaging
    \/ StartImport
    \/ BeginAlbum
    \/ HealthCheck
    \/ ImportItem
    \/ EndAlbum
    \/ EndLoop
    \/ Finalize
    \/ BatchImport

MainSpec == MainInit /\ [][MainNext]_vars

\* ------------------------------------------------------------ repeated runs
\* The files that the results of the run so far record with status error.
ErrorFiles ==
    {stats.results[k].filepath :
        k \in {j \in 1..Len(stats.results) : stats.results[j].status = "error"}}

\* The import phase is started again after a run has ended, by return or by
\* an exception: the process starts afresh, the output tree is as the
\* earlier runs left it.  hist keeps the files that exist at the start of
\* this run and the files the run before recorded as error.
Rerun ==
    /\ pc \in {"done", "crashed"}
    /\ hist' = [run |-> 2, startExists |-> exists, errors |-> ErrorFiles]
    /\ pc' = "start"
    /\ a' = 1
    /\ i' = 0
    /\ media_files' = << >>
    /\ stats' = NewImportStats
    /\ proc' = NoProc
    /\ health' = "none"
    /\ restarted' = FALSE
    /\ report' = NoReport
    /\ invoked' = << >>
    /\ toolLog' = << >>
    /\ deleteLog' = << >>
    /\ checkedAt' = {}
    /\ aborted' = FALSE
    /\ UNCHANGED << cfg, albums, exists, ret, arg, world >>

ResumeInit ==
    /\ cfg \in {c \in Configs : c.output_dir_exists
                                  /\ c.health_check_interval = MaxInterval
                                  /\ c.on_health_failure = "terminate"}
    /\ arg = [kind |-> "resume"]
    /\ world = NoWorld
    /\ hist = [run |-> 1, startExists |-> {f \in Files : f[2] <= Layout[f[1]]},
               errors |-> {}]
    /\ pc = "start"
    /\ ret = Raise
    /\ ImportAtRest

ResumeNext ==
    \/ StartImport
    \/ BeginAlbum
    \/ HealthCheck
    \/ ImportItem
    \/ EndAlbum
    \/ EndLoop
    \/ Finalize
    \/ Rerun

ResumeSpec == ResumeInit /\ [][ResumeNext]_vars

\* ----------------------------------------------------- cadence over albums
\* A run of import_to_apple_photos over any output tree of NumAlbums albums
\* with up to MaxItems files each, every import succeeding, nothing deleted,
\* and Photos restarted after an unhealthy check.
CadenceInit ==
    /\ cfg \in {c \in Configs : c.output_dir_exists /\ ~c.DRY_RUN
                                  /\ ~c.DELETE_AFTER_IMPORT
                                  /\ c.on_health_failure = "restart"}
    /\ albums \in [1..NumAlbums -> 0..MaxItems]
    /\ exists = {f \in Files : f[2] <= albums[f[1]]}
    /\ arg = [kind |-> "cadence"]
    /\ world = NoWorld
    /\ hist = NoHist
    /\ pc = "start"
    /\ ret = Raise
    /\ a = 1
    /\ i = 0
    /\ media_files = << >>
    /\ stats = NewImportStats
    /\ proc = NoProc
    /\ health = "none"
    /\ restarted = FALSE
    /\ report = NoReport
    /\ invoked = << >>
    /\ toolLog = << >>
    /\ deleteLog = << >>
    /\ checkedAt = {}
    /\ aborted = FALSE

CadenceSpec == CadenceInit /\ [][Next]_vars

\* =================================================================== claims
\* The media files staged under OUTPUT_DIR when the run starts.
Staged == {f \in Files : f[2] <= albums[f[1]]}

Results == stats.results
InvokedFiles == {invoked[k].file : k \in 1..Len(invoked)}
IsPrefixOf(s, t) == Len(s) <= Len(t) /\ \A k \in 1..Len(s) : s[k] = t[k]
NoRepeats(s) == \A j, k \in 1..Len(s) : j # k => s[j] # s[k]
\* The run has left import_to_apple_photos, by return or by an exception.
RunOver == pc \in {"done", "crashed"}

\* C1: once a health check has reported unhealthy under the terminate
\* policy, no step invokes the importer or the import tool again, and
\* ImportStats stays exactly as it was; the run is on its way out.
C1_TerminateStopsImporting ==
    [][ (health = "unhealthy" /\ cfg.on_health_failure = "terminate")
          => /\ invoked' = invoked
             /\ toolLog' = toolLog
             /\ stats' = stats
             /\ pc \in {"finalize", "done"} ]_vars

C1_Witness ==
    /\ health = "unhealthy"
    /\ cfg.on_health_failure = "terminate"
    /\ pc = "done"
    /\ Len(Results) >= 1
    /\ \E f \in Staged : f[1] = NumAlbums /\ f \notin InvokedFiles

\* C2: when a run is over and neither the health policy nor the operator
\* aborted it, every staged media file has been passed to the importer.
C2_EveryItemAttempted ==
    (RunOver /\ ~aborted) => InvokedFiles = Staged

\* C3: on every way out of the import loop the report has been written and
\* holds one row per recorded result, in order.
C3_ReportOnEveryExit ==
    RunOver =>
        /\ report.saved
        /\ Len(report.rows) = Len(Results)
        /\ \A k \in 1..Len(Results) :
              /\ report.rows[k][1] = Results[k].filepath
              /\ report.rows[k][3] = Results[k].status

\* C4: the result log has one entry per importer invocation, in invocation
\* order, no file has two entries, and every step leaves the entries already
\* there untouched (the log grows by appending only).
C4_OneResultPerInvocation ==
    /\ [](/\ Len(Results) = Len(invoked)
          /\ \A k \in 1..Len(Results) : Results[k].filepath = invoked[k].file
          /\ NoRepeats([k \in 1..Len(Results) |-> Results[k].filepath]))
    /\ [][IsPrefixOf(Results, stats'.results)]_vars

C4_Witness ==
    /\ pc = "done"
    /\ Len(Results) = Cardinality(Staged)
    /\ \E j, k \in 1..Len(Results) : Results[j].status # Results[k].status

\* C5: each status counter equals the number of logged results with that
\* status, and total equals their sum and the length of the log.
CountOf(status) == Cardinality({k \in 1..Len(Results) : Results[k].status = status})

C5_CountersMatchLog ==
    /\ stats.imported = CountOf("imported")
    /\ stats.duplicates = CountOf("duplicate")
    /\ stats.errors = CountOf("error")
    /\ stats.skipped = CountOf("skipped")
    /\ stats.total = stats.imported + stats.duplicates + stats.errors + stats.skipped
    /\ stats.total = Len(Results)

C5_Witness ==
    /\ stats.imported >= 1
    /\ stats.duplicates >= 1
    /\ stats.errors >= 2
    /\ stats.total = Cardinality(Staged)

\* C6: unlink is called only on a file whose recorded status is imported or
\* duplicate, and only with deletion-after-import enabled; a file recorded
\* as error or skipped still exists; deleted <= imported + duplicates.
StatusOf(f) ==
    LET k == CHOOSE j \in 1..Len(Results) : Results[j].filepath = f
    IN  Results[k].status

C6_DeleteOnlyImportedOrDuplicate ==
    /\ \A k \in 1..Len(deleteLog) :
          /\ \E j \in 1..Len(Results) : Results[j].filepath = deleteLog[k]
          /\ StatusOf(deleteLog[k]) \in {"imported", "duplicate"}
          /\ cfg.DELETE_AFTER_IMPORT
    /\ \A j \in 1..Len(Results) :
          Results[j].status \in {"error", "skipped"} => Results[j].filepath \in exists
    /\ Staged \ exists \subseteq {deleteLog[k] : k \in 1..Len(deleteLog)}
    /\ stats.deleted <= stats.imported + stats.duplicates

C6_Witness ==
    /\ stats.deleted >= 2
    /\ stats.errors >= 1
    /\ \E k \in 1..Len(deleteLog) : StatusOf(deleteLog[k]) = "duplicate"
    /\ \E k \in 1..Len(deleteLog) : StatusOf(deleteLog[k]) = "imported"

\* The indicator words occur in text, letter case ignored.
OccursAt(word, text, k) ==
    /\ k + Len(word) <= Len(text)
    /\ \A j \in 1..Len(word) : LowerChar(text[k + j]) = word[j]
HasIndicator(text) ==
    \E k \in 0..Len(text) :
        OccursAt(IndDuplicate, text, k) \/ OccursAt(IndSkipping, text, k)
\* t is the first n characters of text (all of it when it is shorter).
IsFirstChars(t, text, n) ==
    /\ Len(t) = (IF Len(text) < n THEN Len(text) ELSE n)
    /\ \A k \in 1..Len(t) : t[k] = text[k]
CombinedOutput == proc.stdout \o proc.stderr
Returned == pc = "returned" /\ ~cfg.DRY_RUN

\* C7: a completed invocation yields one result: duplicate when the combined
\* output holds an indicator, whatever the exit status; otherwise imported
\* when the exit status is zero; otherwise error with the first 200
\* characters of the combined output as detail.
C7_Classification ==
    (Returned /\ proc.kind = "completed") =>
        /\ ~ret.raised
        /\ ret.value.filepath = CallFile
        /\ IF HasIndicator(CombinedOutput)
           THEN ret.value.status = "duplicate"
           ELSE IF proc.returncode = 0
           THEN ret.value.status = "imported"
           ELSE /\ ret.value.status = "error"
                /\ ret.value.error_message.some
                /\ IsFirstChars(ret.value.error_message.text, CombinedOutput,
                                ErrorDetailLen)

C7_Witness ==
    /\ Returned
    /\ proc.kind = "completed"
    /\ proc.returncode # 0
    /\ ret.value.status = "duplicate"
    /\ ~HasIndicator(proc.stdout)
    /\ ~HasIndicator(proc.stderr)

\* C8 as stated: exit status 1 always yields error with the first 200
\* characters of the output.
C8_ExitOneIsError ==
    (Returned /\ proc.kind = "completed" /\ proc.returncode = 1) =>
        /\ ret.value.status = "error"
        /\ ret.value.error_message.some
        /\ IsFirstChars(ret.value.error_message.text, CombinedOutput, ErrorDetailLen)

\* C8 amended: exit status 1 with no duplicate/skip indicator in the output
\* yields error with the first 200 characters of the output.
C8_ExitOneNoIndicatorIsError ==
    (Returned /\ proc.kind = "completed" /\ proc.returncode = 1
       /\ ~HasIndicator(CombinedOutput)) =>
        /\ ret.value.status = "error"
        /\ ret.value.error_message.some
        /\ IsFirstChars(ret.value.error_message.text, CombinedOutput, ErrorDetailLen)

C8_Witness ==
    /\ Returned
    /\ proc.kind = "completed"
    /\ proc.returncode = 1
    /\ ret.value.status = "error"
    /\ Len(CombinedOutput) > ErrorDetailLen
    /\ Len(ret.value.error_message.text) = ErrorDetailLen

\* C9: a timed-out invocation is recorded as error with the timeout detail,
\* the loop moves on to the next position, and the import tool is run at
\* most once per file in a run.
C9_TimeoutRecordedNoRetry ==
    /\ [](NoRepeats(toolLog))
    /\ [][ (invoked' # invoked /\ proc'.kind = "timeout")
             => /\ pc' = "item"
                /\ i' = i + 1
                /\ Len(stats'.results) = Len(Results) + 1
                /\ stats'.results[Len(stats'.results)].filepath = media_files[i + 1]
                /\ stats'.results[Len(stats'.results)].status = "error"
                /\ stats'.results[Len(stats'.results)].error_message = Some(TimeoutMsg)
                /\ stats'.errors = stats.errors + 1 ]_vars

C9_Witness ==
    /\ pc = "done"
    /\ Len(toolLog) = Cardinality(Staged)
    /\ Results[1].status = "error"
    /\ Results[1].error_message = Some(TimeoutMsg)
    /\ Results[2].status = "imported"

\* C10: in each album a check runs before the item at 0-based position p
\* exactly when p is one of N, 2N, 3N, ...; consecutive checks of an album
\* are N positions apart; no check runs before position 0.
Interval == cfg.health_check_interval
IsMultiple(p) == \E m \in 1..MaxItems : p = m * Interval

C10_CheckCadence ==
    /\ \A c \in checkedAt : IsMultiple(c[2])
    /\ \A k \in 1..Len(invoked) :
          IsMultiple(invoked[k].pos) => <<invoked[k].album, invoked[k].pos>> \in checkedAt
    /\ \A c, d \in checkedAt :
          (c[1] = d[1] /\ c[2] < d[2]
             /\ ~\E e \in checkedAt : e[1] = c[1] /\ c[2] < e[2] /\ e[2] < d[2])
            => /\ d[2] - c[2] = Interval
               /\ Cardinality({k \in 1..Len(invoked) :
                      invoked[k].album = c[1] /\ c[2] <= invoked[k].pos
                        /\ invoked[k].pos < d[2]}) = Interval
    /\ \A al \in 1..NumAlbums : <<al, 0>> \notin checkedAt

C10_Witness ==
    /\ Interval = 2
    /\ <<1, 2>> \in checkedAt
    /\ <<1, 1>> \notin checkedAt
    /\ Len(invoked) >= 3

\* C11: a check reports healthy exactly when Photos is running, its memory
\* does not exceed the ceiling and the error count of the last 5 minutes does
\* not exceed the ceiling; otherwise it reports unhealthy with the first
\* reason that applies, in the order not running, memory, error count.
Checked == pc = "checked"
WithinCeilings ==
    /\ arg.probe.running
    /\ arg.probe.memory_gb <= max_memory_gb
    /\ arg.probe.error_count <= max_errors
ExpectedReason ==
    IF ~arg.probe.running THEN "not running"
    ELSE IF arg.probe.memory_gb > max_memory_gb THEN "memory"
    ELSE IF arg.probe.error_count > max_errors THEN "errors"
    ELSE "ok"

C11_HealthVerdict ==
    Checked =>
        /\ ~ret.raised
        /\ ret.healthy <=> WithinCeilings
        /\ ret.reason = ExpectedReason

\* C12: handle_health_failure runs only after an unhealthy verdict; restart
\* restarts Photos and continues, terminate aborts, manual continues on 'j',
\* restarts and continues on 'r' and aborts on any other answer, and any
\* other configured action aborts; a healthy verdict continues untouched.
C12_RecoveryDecision ==
    Checked =>
        /\ ret.handled <=> (~ret.raised /\ ~ret.healthy)
        /\ (~ret.raised /\ ret.healthy) => (ret.continue /\ ~ret.restart)
        /\ ret.handled =>
             /\ arg.action = "restart" => (ret.continue /\ ret.restart)
             /\ arg.action = "terminate" => (~ret.continue /\ ~ret.restart)
             /\ (arg.action = "manual" /\ arg.response = "j")
                   => (ret.continue /\ ~ret.restart)
             /\ (arg.action = "manual" /\ arg.response = "r")
                   => (ret.continue /\ ret.restart)
             /\ (arg.action = "manual" /\ arg.response \notin {"j", "r"})
                   => (~ret.continue /\ ~ret.restart)
             /\ arg.action \notin {"restart", "terminate", "manual"}
                   => (~ret.continue /\ ~ret.restart)

C12_Witness ==
    /\ Checked
    /\ ret.handled
    /\ arg.action = "manual"
    /\ arg.response = "r"
    /\ ret.restart
    /\ ret.continue

\* C16: the sanitizer is idempotent: the name computed at import time from
\* the staging directory's name is the name computed at staging time.
C16_SanitizeIdempotent ==
    pc = "named" => ret.imported = ret.staged

C16_Witness ==
    /\ pc = "named"
    /\ ret.staged # arg.name
    /\ ret.staged = << "a", " ", "-", " ", "a" >>

\* C17: the sanitized name holds none of , / \ : " < > ? * | and neither
\* starts nor ends with whitespace.
Forbidden == { ",", "/", "\\", ":", "\"", "<", ">", "?", "*", "|" }

C17_SanitizedIsSafe ==
    pc = "staged" =>
        /\ \A k \in 1..Len(ret.staged) : ret.staged[k] \notin Forbidden
        /\ ret.staged # << >> =>
             /\ ~IsSpace(ret.staged[1])
             /\ ~IsSpace(ret.staged[Len(ret.staged)])

C17_Witness ==
    /\ pc = "staged"
    /\ arg.name = << "\t", "|", "?" >>
    /\ ret.staged = << "-" >>

\* C18: the resolver returns the exact match (media name + ".json") whenever
\* it exists; otherwise the truncated match (extension replaced by ".json")
\* whenever it exists; otherwise some sidecar of the directory whose stripped
\* stem is a prefix of the media stem or has the media stem as a prefix; and
\* none exactly when there is no candidate of any of the three kinds.
ExactSidecar == arg.media \o DotJson
TruncatedSidecar == stem(arg.media) \o DotJson
IsPrefixText(x, y) == Len(x) <= Len(y) /\ \A k \in 1..Len(x) : x[k] = y[k]
FuzzySidecars ==
    {j \in arg.dir :
        /\ IsPrefixText(DotJson, [k \in 1..Len(DotJson) |->
                                     IF Len(j) >= Len(DotJson)
                                     THEN j[Len(j) - Len(DotJson) + k] ELSE ""])
        /\ \/ IsPrefixText(json_stem(j), stem(arg.media))
           \/ IsPrefixText(stem(arg.media), json_stem(j))}

C18_SidecarPriority ==
    pc = "resolved" =>
        /\ ExactSidecar \in arg.dir => ret = Some(ExactSidecar)
        /\ (ExactSidecar \notin arg.dir /\ TruncatedSidecar \in arg.dir)
              => ret = Some(TruncatedSidecar)
        /\ (ExactSidecar \notin arg.dir /\ TruncatedSidecar \notin arg.dir
              /\ FuzzySidecars # {})
              => (ret.some /\ ret.text \in FuzzySidecars)
        /\ ret = None <=> (ExactSidecar \notin arg.dir /\ TruncatedSidecar \notin arg.dir
                             /\ FuzzySidecars = {})

C18_Witness ==
    /\ pc = "resolved"
    /\ arg.media = << "a", "b", ".", "j", "p", "g" >>
    /\ ExactSidecar \in arg.dir
    /\ TruncatedSidecar \in arg.dir
    /\ Cardinality(FuzzySidecars) >= 4
    /\ ret = Some(ExactSidecar)

\* C19: a primary location of latitude 0 and longitude 0 counts as absent,
\* and then a secondary location with non-zero latitude and longitude is the
\* one returned; when the primary location is usable it is the one returned
\* and the secondary field is not read at all (so that even a malformed
\* secondary field cannot make the call fail).
PrimaryIsZeroZero ==
    /\ arg.doc.json = "object"
    /\ arg.doc.photoTakenTime.kind # "malformed"
    /\ arg.doc.geoData.kind = "object"
    /\ arg.doc.geoData.latitude = 0
    /\ arg.doc.geoData.longitude = 0
PrimaryIsUsable ==
    /\ arg.doc.json = "object"
    /\ arg.doc.photoTakenTime.kind # "malformed"
    /\ arg.doc.geoData.kind = "object"
    /\ arg.doc.geoData.latitude # 0
    /\ arg.doc.geoData.longitude # 0
SecondaryIsNonZero ==
    /\ arg.doc.geoDataExif.kind = "object"
    /\ arg.doc.geoDataExif.latitude # 0
    /\ arg.doc.geoDataExif.longitude # 0

C19_GeoFallback ==
    pc = "parsed" =>
        /\ (PrimaryIsZeroZero /\ SecondaryIsNonZero) =>
              /\ ~ret.raised
              /\ ret.value.has_geo
              /\ ret.value.latitude = arg.doc.geoDataExif.latitude
              /\ ret.value.longitude = arg.doc.geoDataExif.longitude
        /\ (PrimaryIsZeroZero /\ ~SecondaryIsNonZero /\ ~ret.raised) =>
              ~ret.value.has_geo
        /\ PrimaryIsUsable =>
              /\ ~ret.exif_read
              /\ ~ret.raised
              /\ ret.value.has_geo
              /\ ret.value.latitude = arg.doc.geoData.latitude
              /\ ret.value.longitude = arg.doc.geoData.longitude

C19_Witness ==
    /\ pc = "parsed"
    /\ PrimaryIsZeroZero
    /\ SecondaryIsNonZero
    /\ ret.value.has_geo
    /\ ret.value.latitude = 0 - 1
    /\ ret.exif_read

\* C14: when exiftool or osxphotos is missing at startup, the run never
\* gets past the dependency check and nothing is ever changed: no directory
\* created, no archive extracted, no file copied or tagged, no import
\* invoked, no file deleted, Photos not restarted, no report written.
NothingChanged ==
    /\ world.mkdirs = {}
    /\ world.extracted = {}
    /\ world.copied = {}
    /\ world.tagged = {}
    /\ toolLog = << >>
    /\ deleteLog = << >>
    /\ exists = SourceFiles
    /\ ~restarted
    /\ ~report.saved

C15_DryRunChangesNothing ==
    cfg.DRY_RUN =>
        /\ NothingChanged
        /\ \A k \in 1..Len(stats.results) : stats.results[k].status = "skipped"

\* C20: a media file is never counted as an error because of its sidecar:
\* only a failed copy is an error; a file without a sidecar is staged with
\* no metadata applied, and a file with a malformed sidecar is staged too
\* without being counted as an error.
C20_SidecarNeverAnError ==
    \A f \in SourceFiles :
        (arg.items[f].copy_ok /\ f \in world.copied) => f \notin world.failed

FailedUnlinks == {deleteLog[k] : k \in 1..Len(deleteLog)} \cap exists
C21_DeletionStep ==
    (Len(deleteLog') > Len(deleteLog) /\ exists' = exists) =>
        /\ Len(stats'.results) = Len(stats.results) + 1
        /\ stats'.results[Len(stats'.results)].status \in {"imported", "duplicate"}
        /\ stats'.results[Len(stats'.results)].filepath = deleteLog'[Len(deleteLog')]
        /\ stats'.deleted = stats.deleted
        /\ pc' = "item"
        /\ i' = i + 1
C21_DeletedCountsRemovals ==
    /\ [](stats.deleted = Cardinality(SourceFiles \ exists))
    /\ [](\A k \in 1..Len(stats.results) :
             stats.results[k].filepath \in FailedUnlinks
                => stats.results[k].status \in {"imported", "duplicate"})
    /\ [][C21_DeletionStep]_vars

C21_Witness ==
    /\ FailedUnlinks # {}
    /\ stats.deleted = 1
    /\ Cardinality(SourceFiles \ exists) = 1
    /\ Len(invoked) = 3
    /\ invoked[2].file \in FailedUnlinks
    /\ invoked[1].file \notin exists

\* C22: primary coordinates count as absent only when latitude and
\* longitude are both zero; a primary location with exactly one zero
\* component is kept in the returned record.
PrimaryHasSingleZero ==
    /\ arg.doc.json = "object"
    /\ arg.doc.photoTakenTime.kind # "malformed"
    /\ arg.doc.geoData.kind = "object"
    /\ (arg.doc.geoData.latitude = 0) # (arg.doc.geoData.longitude = 0)

C22_SingleZeroKept ==
    (pc = "parsed" /\ PrimaryHasSingleZero) =>
        /\ ~ret.raised
        /\ ret.value.has_geo
        /\ ret.value.latitude = arg.doc.geoData.latitude
        /\ ret.value.longitude = arg.doc.geoData.longitude

\* C24: the position that the cadence test looks at restarts at 0 in
\* every album: a check runs in an album only if the album holds more than
\* N items, the first check of every album runs before its position N
\* however many items were imported in the albums before, and a run whose
\* albums hold at most N items each runs no check at all.
AllAlbumsSmall == \A al \in 1..NumAlbums : albums[al] <= Interval
C24_CadenceRestartsPerAlbum ==
    /\ \A c \in checkedAt : c[2] >= Interval /\ c[2] < albums[c[1]]
    /\ \A c \in checkedAt :
          (~\E e \in checkedAt : e[1] = c[1] /\ e[2] < c[2]) => c[2] = Interval
    /\ \A k \in 1..Len(invoked) :
          (albums[invoked[k].album] > Interval /\ invoked[k].pos >= Interval)
             => <<invoked[k].album, Interval>> \in checkedAt
    /\ AllAlbumsSmall => checkedAt = {}

C24_Witness ==
    /\ AllAlbumsSmall
    /\ pc = "done"
    /\ checkedAt = {}
    /\ Len(toolLog) > 2 * Interval
    /\ \A k \in 1..Len(stats.results) : stats.results[k].status = "imported"

\* C25: the resolver never returns, for a media file, the exact-match
\* sidecar (name + ".json") of another media file of the same directory.
C25_NoForeignSidecar ==
    pc = "resolved" =>
        \A other \in arg.others \ {arg.media} : ret # Some(other \o DotJson)

\* C23: batch mode removes a file only if the batch import exited with
\* status 0, deletion after import is enabled, and the report holds a row
\* that names the file and whose status indicates imported, duplicate or
\* skipped duplicate; a file without such a row is never removed, and
\* nothing is removed when the import exits nonzero or does not run.
RowNames(row, f) ==
    \/ row.filename = Some(f)
    \/ row.filepath = Some(f)
    \/ row.file = Some(f)
RowIndicatesDone(row) ==
    \/ row.imported \in {"True", "true", "1"}
    \/ row.status \in {"imported", "duplicate", "skipped_duplicate"}
BatchRemoved == SourceFiles \ exists

C23_BatchDeletesOnlyReported ==
    /\ pc = "batch" => BatchRemoved = {}
    /\ \A f \in BatchRemoved :
          /\ arg.batch.proc.kind = "completed"
          /\ arg.batch.proc.returncode = 0
          /\ cfg.DELETE_AFTER_IMPORT
          /\ ~cfg.DRY_RUN
          /\ arg.batch.report_exists
          /\ \E k \in 1..Len(arg.batch.rows) :
                RowNames(arg.batch.rows[k], f) /\ RowIndicatesDone(arg.batch.rows[k])

C23_Witness ==
    /\ pc = "done"
    /\ BatchRemoved = {RowFileA}
    /\ Len(arg.batch.rows) = 2
    /\ RowNames(arg.batch.rows[1], RowFileB)
    /\ arg.batch.rows[1].status = "error"
    /\ RowNames(arg.batch.rows[2], RowFileA)
    /\ arg.batch.rows[2].imported = "True"

====
